---- MODULE Spec2Model ----
(***************************************************************************)
(* python/paddle/tensor/random.py: the user-facing wrappers randint,       *)
(* randn, randperm and rand.  Each resolves its default arguments, coerces *)
(* the dtype descriptor, branches on in_dygraph_mode() and either calls    *)
(* the immediate operator binding of core.ops or appends an operator node  *)
(* to the program through a LayerHelper.                                   *)
(*                                                                         *)
(* Python values are represented as follows.                               *)
(*   None            the empty sequence <<>>; a present optional value x   *)
(*                   is the one-element sequence <<x>>                     *)
(*   list, tuple     [kind |-> "list" or "tuple", dims |-> sequence]       *)
(*   dtype           a string: a numpy-style name ("int32"), or a          *)
(*                   core.VarDesc.VarType member ("VarType.INT32")         *)
(*   0.0, 1.0        the strings "0.0", "1.0"                              *)
(***************************************************************************)
EXTENDS Integers, Sequences, FiniteSets, TLC

\* ------------------------------------------------------------------ bounds

\* Integer arguments (low, high, n) are drawn from 0..MaxInt.
MaxInt == 1
\* The program holds at most MaxOps operator nodes.
MaxOps == 1

\* --------------------------------------------------------- argument values

None == <<>>
Some(x) == <<x>>

IntArgs == 0..MaxInt
OptIntArgs == {None} \cup {Some(i) : i \in IntArgs}

\* The shape a caller passes explicitly: the tuple (2, 3).  The list case is
\* randint's default [1].  Elements are plain integers.
ShapeArgs == {[kind |-> "tuple", dims |-> <<2, 3>>]}
OptShapeArgs == {None} \cup {Some(s) : s \in ShapeArgs}

\* core.VarDesc.VarType members
VarType == {"VarType.BOOL", "VarType.INT32", "VarType.INT64",
            "VarType.FP32", "VarType.FP64"}

RandintDtypeArgs == {None, Some("int32"), Some("float32"), Some("VarType.INT64")}
RandpermDtypeArgs == {None, Some("int32"), Some("bool")}
FloatDtypeArgs == {None, Some("float64")}

\* ------------------------------------------------- framework collaborators

\* fluid.framework.convert_np_dtype_to_dtype_: numpy-style name -> VarType
convert_np_dtype_to_dtype_(np_dtype) ==
    CASE np_dtype = "float32" -> "VarType.FP32"
      [] np_dtype = "float64" -> "VarType.FP64"
      [] np_dtype = "int32"   -> "VarType.INT32"
      [] np_dtype = "int64"   -> "VarType.INT64"
      [] np_dtype = "bool"    -> "VarType.BOOL"

\* fluid.data_feeder.convert_dtype: VarType or name -> name
convert_dtype(dtype) ==
    CASE dtype = "VarType.FP32"  -> "float32"
      [] dtype = "VarType.FP64"  -> "float64"
      [] dtype = "VarType.INT32" -> "int32"
      [] dtype = "VarType.INT64" -> "int64"
      [] dtype = "VarType.BOOL"  -> "bool"
      [] OTHER -> dtype

\* fluid.data_feeder.check_dtype: TRUE when it returns, FALSE when it raises
\* TypeError
check_dtype(input_dtype, expected_dtype) ==
    convert_dtype(input_dtype) \in expected_dtype

\* fluid.layers.utils._convert_shape_to_list on a list or tuple of integers:
\* always a list
_convert_shape_to_list(shape) ==
    [kind |-> "list", dims |-> shape.dims]

\* fluid.layers.utils._get_shape_tensor_inputs on a list or tuple of
\* integers: attrs["shape"] becomes the list of the dimensions, inputs stay
\* empty, and shape itself is only read
_get_shape_tensor_inputs(attrs, shape) ==
    [shape |-> [kind |-> "list", dims |-> shape.dims],
     low |-> attrs.low, high |-> attrs.high,
     seed |-> attrs.seed, dtype |-> attrs.dtype]

\* ---------------------------------------------------------------- results

\* What a call produced: the exception it raised ("none" when it returned),
\* the way it dispatched ("core.ops", "append_op", "layer" or "none"), the
\* operator and the named parameters it dispatched, the stop_gradient flag
\* of the handle it returned ("runtime" when this file leaves it as the
\* runtime made it), the program after the call, and the object that is the
\* default of randint's shape parameter after the call.
NoOp == [type |-> "none"]

Raise(exc, program, defaults) ==
    [raised |-> exc, via |-> "none", op |-> NoOp, stop_gradient |-> "none",
     program |-> program, defaults |-> defaults]

\* core.ops.<type>(name, value, ...): nothing is appended to the program
CoreOps(type, attrs, program, defaults) ==
    [raised |-> "none", via |-> "core.ops",
     op |-> [type |-> type, attrs |-> attrs], stop_gradient |-> "runtime",
     program |-> program, defaults |-> defaults]

\* helper.append_op(type=..., inputs=..., outputs={'Out': out}, attrs=attrs)
AppendOp(type, attrs, program, defaults) ==
    [raised |-> "none", via |-> "append_op",
     op |-> [type |-> type, attrs |-> attrs], stop_gradient |-> "runtime",
     program |-> Append(program, [type |-> type, attrs |-> attrs]),
     defaults |-> defaults]

\* fluid.layers.uniform_random / gaussian_random, called with the keyword
\* arguments kwargs: an immediate operator call in dygraph mode, one node
\* appended to the program otherwise
Layer(type, kwargs, dygraph, program, defaults) ==
    [raised |-> "none", via |-> "layer",
     op |-> [type |-> type, attrs |-> kwargs], stop_gradient |-> "runtime",
     program |-> IF dygraph THEN program
                 ELSE Append(program, [type |-> type, attrs |-> kwargs]),
     defaults |-> defaults]

\* ---------------------------------------------------------------- randint

\* def randint(low=0, high=None, shape=[1], dtype=None, name=None): the list
\* [1] is made once, when the function is defined
randint_shape_default == [kind |-> "list", dims |-> <<1>>]

\* an omitted shape binds the parameter to the default object
randint_shape_param(shape, defaults) ==
    IF shape = None THEN defaults ELSE shape[1]

\* (mutant) high = low, with the reset of low forgotten
randint_bounds_low_kept(low, high) ==
    IF high = None THEN [low |-> low, high |-> low]
                   ELSE [low |-> low, high |-> high[1]]

\* if high is None: high = low; low = 0
randint_bounds(low, high) ==
    IF high = None THEN [low |-> 0, high |-> low]
                   ELSE [low |-> low, high |-> high[1]]

\* if dtype is None: dtype = 'int64'
\* if not isinstance(dtype, core.VarDesc.VarType):
\*     dtype = convert_np_dtype_to_dtype_(dtype)
randint_dtype(dtype) ==
    LET d == IF dtype = None THEN "int64" ELSE dtype[1]
    IN  IF d \notin VarType THEN convert_np_dtype_to_dtype_(d) ELSE d

\* (mutant) the shape is passed to the operator as the caller gave it
randint_dygraph_raw_shape(shape, low, high, dtype, program, defaults) ==
    CoreOps("randint",
            [shape |-> shape, low |-> low, high |-> high,
             seed |-> 0, dtype |-> dtype],
            program, defaults)

\* (mutant) the list bound to shape is extended in place before the call
randint_dygraph_in_place(shape, low, high, dtype, program, defaults) ==
    LET list == _convert_shape_to_list(shape)
    IN  CoreOps("randint",
                [shape |-> list, low |-> low, high |-> high,
                 seed |-> 0, dtype |-> dtype],
                program,
                IF shape = defaults /\ Len(shape.dims) < 2
                THEN [defaults EXCEPT !.dims = Append(@, 1)]
                ELSE defaults)

\* the branch taken when in_dygraph_mode()
randint_dygraph(shape, low, high, dtype, program, defaults) ==
    LET list == _convert_shape_to_list(shape)
    IN  CoreOps("randint",
                [shape |-> list, low |-> low, high |-> high,
                 seed |-> 0, dtype |-> dtype],
                program, defaults)

\* the rest of the function, reached in graph mode only
randint_static(shape, low, high, dtype, program, defaults) ==
    IF ~check_dtype(dtype, {"int32", "int64"})
    THEN Raise("TypeError", program, defaults)
    ELSE IF low >= high
    THEN Raise("ValueError", program, defaults)
    ELSE LET attrs == [low |-> low, high |-> high, seed |-> 0, dtype |-> dtype]
         IN  AppendOp("randint", _get_shape_tensor_inputs(attrs, shape),
                      program, defaults)

randint(low, high, shape, dtype, in_dygraph_mode, program, defaults) ==
    LET b  == randint_bounds(low, high)
        dt == randint_dtype(dtype)
        sh == randint_shape_param(shape, defaults)
    IN  IF in_dygraph_mode
        THEN randint_dygraph(sh, b.low, b.high, dt, program, defaults)
        ELSE randint_static(sh, b.low, b.high, dt, program, defaults)

\* ------------------------------------------------------------------ randn

\* if dtype is None: dtype = 'float32'
randn_dtype(dtype) == IF dtype = None THEN "float32" ELSE dtype[1]

randn(shape, dtype, in_dygraph_mode, program, defaults) ==
    LET out == Layer("gaussian_random",
                     [shape |-> shape, mean |-> "0.0", std |-> "1.0",
                      seed |-> 0, dtype |-> randn_dtype(dtype)],
                     in_dygraph_mode, program, defaults)
    IN  [out EXCEPT !.stop_gradient = "True"]

\* --------------------------------------------------------------- randperm

\* def randperm(n, dtype="int64", name=None)
randperm_dtype_default == "int64"

\* if not isinstance(dtype, core.VarDesc.VarType):
\*     dtype = convert_np_dtype_to_dtype_(dtype)
randperm_dtype(dtype) ==
    LET d == IF dtype = None THEN randperm_dtype_default ELSE dtype[1]
    IN  IF d \notin VarType THEN convert_np_dtype_to_dtype_(d) ELSE d

\* (mutant) the return is missing: the call falls through and appends too
randperm_dygraph_falls_through(n, dtype, program, defaults) ==
    [CoreOps("randperm", [n |-> n, seed |-> 0, dtype |-> dtype],
             program, defaults)
     EXCEPT !.program = Append(program,
                [type |-> "randperm",
                 attrs |-> [n |-> n, dtype |-> dtype, seed |-> 0]])]

\* the branch taken when in_dygraph_mode()
randperm_dygraph(n, dtype, program, defaults) ==
    CoreOps("randperm", [n |-> n, seed |-> 0, dtype |-> dtype],
            program, defaults)

\* (mutant) out.stop_gradient is left as the helper made it
randperm_static_flag_unset(n, dtype, program, defaults) ==
    IF n < 1
    THEN Raise("ValueError", program, defaults)
    ELSE IF ~check_dtype(dtype, {"int64", "int32", "float32", "float64"})
    THEN Raise("TypeError", program, defaults)
    ELSE AppendOp("randperm", [n |-> n, dtype |-> dtype, seed |-> 0],
                  program, defaults)

\* the rest of the function, reached in graph mode only
randperm_static(n, dtype, program, defaults) ==
    IF n < 1
    THEN Raise("ValueError", program, defaults)
    ELSE IF ~check_dtype(dtype, {"int64", "int32", "float32", "float64"})
    THEN Raise("TypeError", program, defaults)
    ELSE LET out == AppendOp("randperm",
                             [n |-> n, dtype |-> dtype, seed |-> 0],
                             program, defaults)
         IN  [out EXCEPT !.stop_gradient = "True"]

randperm(n, dtype, in_dygraph_mode, program, defaults) ==
    LET dt == randperm_dtype(dtype)
    IN  IF in_dygraph_mode
        THEN randperm_dygraph(n, dt, program, defaults)
        ELSE randperm_static(n, dt, program, defaults)

\* ------------------------------------------------------------------- rand

\* (mutant) the default is float64
rand_dtype_float64(dtype) == IF dtype = None THEN "float64" ELSE dtype[1]

\* if dtype is None: dtype = 'float32'
rand_dtype(dtype) == IF dtype = None THEN "float32" ELSE dtype[1]

rand(shape, dtype, in_dygraph_mode, program, defaults) ==
    LET out == Layer("uniform_random",
                     [shape |-> shape, dtype |-> rand_dtype(dtype),
                      min |-> "0.0", max |-> "1.0"],
                     in_dygraph_mode, program, defaults)
    IN  [out EXCEPT !.stop_gradient = "True"]

\* ------------------------------------------------------------------ state

VARIABLES
    dygraph,     \* the framework's mode flag, read through in_dygraph_mode()
    program,     \* the operator nodes of the caller's program, in order
    defaults,    \* the object bound to randint's shape parameter by default
    last         \* the most recent call: function, arguments, mode, outcome

vars == <<dygraph, program, defaults, last>>

Outcome(r) ==
    [raised |-> r.raised, via |-> r.via, op |-> r.op,
     stop_gradient |-> r.stop_gradient]

\* A call of fn with arguments args in the given mode and environment.
Call(fn, args, mode, prog, dflt) ==
    CASE fn = "randint" ->
             randint(args.low, args.high, args.shape, args.dtype, mode, prog, dflt)
      [] fn = "randperm" -> randperm(args.n, args.dtype, mode, prog, dflt)
      [] fn = "rand" -> rand(args.shape, args.dtype, mode, prog, dflt)
      [] fn = "randn" -> randn(args.shape, args.dtype, mode, prog, dflt)

Init ==
    /\ dygraph \in BOOLEAN
    /\ program = <<>>
    /\ defaults = randint_shape_default
    /\ last = [fn |-> "none"]

\* The record of a call and of what it produced.
Record(fn, args, r) ==
    [fn |-> fn, args |-> args, dygraph |-> dygraph, res |-> Outcome(r)]

Randint ==
    \E low \in IntArgs, high \in OptIntArgs,
       shape \in OptShapeArgs, dtype \in RandintDtypeArgs :
        LET args == [low |-> low, high |-> high, shape |-> shape, dtype |-> dtype]
        IN  \E r \in {Call("randint", args, dygraph, program, defaults)} :
            /\ Len(r.program) <= MaxOps
            /\ program' = r.program
            /\ defaults' = r.defaults
            /\ last' = Record("randint", args, r)
            /\ UNCHANGED dygraph

Randn ==
    \E shape \in ShapeArgs, dtype \in FloatDtypeArgs :
        LET args == [shape |-> shape, dtype |-> dtype]
        IN  \E r \in {Call("randn", args, dygraph, program, defaults)} :
            /\ Len(r.program) <= MaxOps
            /\ program' = r.program
            /\ defaults' = r.defaults
            /\ last' = Record("randn", args, r)
            /\ UNCHANGED dygraph

Randperm ==
    \E n \in IntArgs, dtype \in RandpermDtypeArgs :
        LET args == [n |-> n, dtype |-> dtype]
        IN  \E r \in {Call("randperm", args, dygraph, program, defaults)} :
            /\ Len(r.program) <= MaxOps
            /\ program' = r.program
            /\ defaults' = r.defaults
            /\ last' = Record("randperm", args, r)
            /\ UNCHANGED dygraph

Rand ==
    \E shape \in ShapeArgs, dtype \in FloatDtypeArgs :
        LET args == [shape |-> shape, dtype |-> dtype]
        IN  \E r \in {Call("rand", args, dygraph, program, defaults)} :
            /\ Len(r.program) <= MaxOps
            /\ program' = r.program
            /\ defaults' = r.defaults
            /\ last' = Record("rand", args, r)
            /\ UNCHANGED dygraph

\* The caller switches between dygraph and graph mode (enable_imperative,
\* disable_imperative); the flag is owned by the framework.
SwitchMode ==
    /\ dygraph' = ~dygraph
    /\ UNCHANGED <<program, defaults, last>>

Next == Randint \/ Randn \/ Randperm \/ Rand \/ SwitchMode

Spec == Init /\ [][Next]_vars

\* ----------------------------------------------------------------- claims

TypeOK ==
    /\ dygraph \in BOOLEAN
    /\ Len(program) <= MaxOps
    /\ last.fn \in {"none", "randint", "randn", "randperm", "rand"}

\* The bounds a randint call asks for, read off its arguments.
AskedLow(a) == IF a.high = None THEN 0 ELSE a.low
AskedHigh(a) == IF a.high = None THEN a.low ELSE a.high[1]

\* The dtype a call asks for, as a name; dflt stands for an absent dtype.
AskedDtype(a, dflt) ==
    IF a.dtype = None THEN dflt
    ELSE CASE a.dtype[1] = "VarType.INT32" -> "int32"
           [] a.dtype[1] = "VarType.INT64" -> "int64"
           [] OTHER -> a.dtype[1]

Returned == last.fn # "none" /\ last.res.raised = "none"

\* C1: every randint call whose effective bounds satisfy low >= high ends in
\* a ValueError and dispatches no operator, in dygraph mode as in graph mode
\* (the requested dtype being one randint accepts).
C1_RandintRaisesWhenLowNotBelowHigh ==
    (/\ last.fn = "randint"
     /\ AskedDtype(last.args, "int64") \in {"int32", "int64"}
     /\ AskedLow(last.args) >= AskedHigh(last.args))
    => (last.res.raised = "ValueError" /\ last.res.via = "none")

\* C2: every randperm call with n < 1 ends in a ValueError and dispatches no
\* operator, in dygraph mode as in graph mode.
C2_RandpermRaisesWhenNBelowOne ==
    (last.fn = "randperm" /\ last.args.n < 1)
    => (last.res.raised = "ValueError" /\ last.res.via = "none")

\* C3: the operator randint dispatches receives low = 0 and high = k when
\* the call gave high = None and low = k, and the caller's low and high
\* unchanged when high was given; in either mode.
C3_RandintBoundsResolved ==
    (last.fn = "randint" /\ last.res.via # "none")
    => LET a == last.args
           o == last.res.op.attrs
       IN  IF a.high = None
           THEN o.low = 0 /\ o.high = a.low
           ELSE o.low = a.low /\ o.high = a.high[1]

C3_Witness ==
    /\ last.fn = "randint"
    /\ last.args.high = None
    /\ last.args.low = 1
    /\ last.res.via = "append_op"
    /\ last.res.op.attrs.low = 0
    /\ last.res.op.attrs.high = 1

\* C4: randint raises a TypeError and dispatches no operator whenever the
\* requested dtype is not int32 or int64, in dygraph mode as in graph mode;
\* with dtype None the operator receives int64.
C4_RandintRejectsOtherDtypes ==
    /\ (/\ last.fn = "randint"
        /\ AskedDtype(last.args, "int64") \notin {"int32", "int64"})
       => (last.res.raised = "TypeError" /\ last.res.via = "none")
    /\ (/\ last.fn = "randint"
        /\ last.args.dtype = None
        /\ last.res.via # "none")
       => last.res.op.attrs.dtype = "VarType.INT64"

\* C5: rand forwards min 0.0, max 1.0 and randn mean 0.0, std 1.0; both
\* forward dtype float32 when the call gave dtype None and the caller's
\* dtype unchanged otherwise.
C5_RandRandnDefaultFloat32 ==
    /\ last.fn = "rand"
       => /\ last.res.op.type = "uniform_random"
          /\ last.res.op.attrs.min = "0.0"
          /\ last.res.op.attrs.max = "1.0"
          /\ last.res.op.attrs.dtype =
                 IF last.args.dtype = None THEN "float32" ELSE last.args.dtype[1]
    /\ last.fn = "randn"
       => /\ last.res.op.type = "gaussian_random"
          /\ last.res.op.attrs.mean = "0.0"
          /\ last.res.op.attrs.std = "1.0"
          /\ last.res.op.attrs.dtype =
                 IF last.args.dtype = None THEN "float32" ELSE last.args.dtype[1]

C5_Witness ==
    /\ last.fn = "rand"
    /\ last.args.dtype = None
    /\ last.res.op.attrs.dtype = "float32"

\* C6: randperm(n) with n >= 1 and no dtype argument dispatches the randperm
\* operator with dtype int32.
C6_RandpermDefaultInt32 ==
    (/\ last.fn = "randperm"
     /\ last.args.n >= 1
     /\ last.args.dtype = None)
    => (last.res.via # "none" /\ last.res.op.attrs.dtype = "VarType.INT32")

C9_OutcomeIndependentOfHistory ==
    last.fn # "none"
    => last.res = Outcome(Call(last.fn, last.args, last.dygraph,
                               <<>>, randint_shape_default))

C9_Witness ==
    /\ last.fn = "randint"
    /\ last.dygraph
    /\ last.args.shape = None
    /\ Len(program) >= 1
    /\ last.res.op.attrs.shape = [kind |-> "list", dims |-> <<1>>]

\* C10: the handle returned by rand, by randn and by a graph-mode randperm
\* has stop_gradient set to True by this file; randint and a dygraph-mode
\* randperm return the handle with the flag as the runtime made it.
C10_StopGradientSet ==
    Returned
    => IF \/ last.fn \in {"rand", "randn"}
          \/ (last.fn = "randperm" /\ ~last.dygraph)
       THEN last.res.stop_gradient = "True"
       ELSE last.res.stop_gradient = "runtime"

C10_Witness ==
    /\ last.fn = "randperm"
    /\ ~last.dygraph
    /\ last.res.via = "append_op"
    /\ last.res.stop_gradient = "True"

====
